---- MODULE Spec2Model ----
(***************************************************************************)
(* A model of the editor core of tte (src/src/editor.rs): the run loop,    *)
(* process_keypress, move_cursor, scroll, prompt, save and search.         *)
(* Document and Row are not part of the available sources; their           *)
(* operations are modelled from the design document (sections 4.2, 4.3).   *)
(***************************************************************************)
EXTENDS Integers, Sequences, FiniteSets, TLC

\* ------------------------------------------------------------------ bounds
MaxRows == 2
MaxLen == 1
MaxQuery == 1
\* The terminal of the editor runs is Width x Height.
Width == 1
Height == 1
\* The scroll computation is also checked alone, on every cursor and offset
\* up to MaxCoord and every terminal up to MaxExtent x MaxExtent.
MaxCoord == 3
MaxExtent == 2

\* ------------------------------------------------------- program constants
QUIT_TIMES == 3

\* The characters a row can hold: one character.
Chars == {"a"}

\* The characters typed into a prompt.
PromptChars == {"a"}

\* A character of two bytes in UTF-8.
E_ACUTE == "U+00E9"

\* The tab character, and the tab stop the rendered row expands it to.
TAB == "\t"

TAB_STOP == 8

\* ----------------------------------------------------------------- helpers
Min(a, b) == IF a < b THEN a ELSE b

Max(a, b) == IF a > b THEN a ELSE b

\* usize::saturating_sub
saturating_sub(a, b) == IF a > b THEN a - b ELSE 0

\* usize::saturating_add; every coordinate of the model is far below
\* usize::MAX, so the addition never saturates.
saturating_add(a, b) == a + b

Position(x, y) == [x |-> x, y |-> y]

\* ------------------------------------------------------------------- state
VARIABLES
    rows,            \* document.rows: a sequence of rows, each a sequence of characters
    dirty,           \* document.dirty
    file_name,       \* document.file_name: {} is None, {name} is Some(name)
    cursor_position, \* Editor.cursor_position
    offset,          \* Editor.offset
    size,            \* terminal.size(): [width, height]
    should_quit,     \* Editor.should_quit
    quit_times,      \* Editor.quit_times
    status_message,  \* Editor.status_message.text, as [kind, n]
    pc,              \* where the run loop stands
    prompt_kind,     \* which prompt is open: "none", "save", "search"
    result,          \* prompt's local `result`
    direction,       \* search's local `direction`
    old_position,    \* search's local `old_position`
    last_key,        \* history: the key handled since the last refresh
    quit_run,        \* history: Quit commands in a row on a dirty document
    prev,            \* history: cursor, quit_times, rows, dirty when the last key was read
    prev_offset,     \* history: the offset before the last scroll
    session          \* history: what happened in the last prompt session

vars == <<rows, dirty, file_name, cursor_position, offset, size, should_quit,
          quit_times, status_message, pc, prompt_kind, result, direction,
          old_position, last_key, quit_run, prev, prev_offset, session>>

\* ------------------------------------------------------------------- keys
Key(ctrl, code, ch) == [ctrl |-> ctrl, code |-> code, ch |-> ch]

NoKey == Key(FALSE, "None", "")

CtrlQ == Key(TRUE, "Char", "q")

CtrlS == Key(TRUE, "Char", "s")

CtrlF == Key(TRUE, "Char", "f")

MoveCodes == {"Up", "Down", "Left", "Right", "PageUp", "PageDown", "Home", "End"}

\* Keys no arm of process_keypress matches.
OtherCodes == {"Esc", "F1"}

\* ---------------------------------------------------------- status messages
Msg(kind, n, text) == [kind |-> kind, n |-> n, text |-> text]

EmptyMsg == Msg("empty", 0, <<>>)

\* ------------------------------------------------------------ Row (4.2)
\* Row.insert: the index is clamped to [0, len].
Row_insert(r, at, c) ==
    LET i == Min(at, Len(r))
    IN  SubSeq(r, 1, i) \o <<c>> \o SubSeq(r, i + 1, Len(r))

\* Row.delete: removes the character at the index; a no-op out of bounds.
Row_delete(r, at) ==
    IF at >= Len(r) THEN r
    ELSE SubSeq(r, 1, at) \o SubSeq(r, at + 2, Len(r))

\* Row.split: the left part keeps [0, at), the right part is [at, len).
Row_split(r, at) ==
    LET i == Min(at, Len(r))
    IN  <<SubSeq(r, 1, i), SubSeq(r, i + 1, Len(r))>>

\* Row.append: concatenates the raw content.
Row_append(r, other) == r \o other

\* Row.raw_to_render_x: the column of the rendered row the raw index stands
\* at, each tab before it filling up to the next multiple of TAB_STOP.
RECURSIVE raw_to_render_x(_, _)
raw_to_render_x(r, raw_index) ==
    IF raw_index = 0 \/ r = <<>> THEN 0
    ELSE LET i == Min(raw_index, Len(r))
             rx == raw_to_render_x(r, i - 1)
         IN  IF r[i] = TAB THEN rx + (TAB_STOP - (rx % TAB_STOP)) ELSE rx + 1

\* ------------------------------------------------------- Document (4.3)
\* Document.insert with '\n': the row at the position is split into two rows
\* inserted in sequence; with no row at the position (the empty document) a
\* new empty row is added at the end.
Document_insert_newline(rws, at) ==
    IF at.y >= Len(rws) THEN Append(rws, <<>>)
    ELSE SubSeq(rws, 1, at.y)
         \o Row_split(rws[at.y + 1], at.x)
         \o SubSeq(rws, at.y + 2, Len(rws))

\* Document.insert with any other character: position.y is clamped to the last
\* row and that row's insert is used; the empty document gets its first row.
Document_insert(rws, at, c) ==
    IF c = "\n" THEN Document_insert_newline(rws, at)
    ELSE IF Len(rws) = 0 THEN << <<c>> >>
    ELSE LET y == Min(at.y, Len(rws) - 1)
         IN  [rws EXCEPT ![y + 1] = Row_insert(@, at.x, c)]

\* Document.delete: a no-op when position.y >= len(rows); at the end of a row
\* the following row (if any) is merged into it; else Row.delete.
Document_delete(rws, at) ==
    IF at.y >= Len(rws) THEN rws
    ELSE IF at.x = Len(rws[at.y + 1])
    THEN IF at.y + 1 < Len(rws)
         THEN SubSeq(rws, 1, at.y)
              \o <<Row_append(rws[at.y + 1], rws[at.y + 2])>>
              \o SubSeq(rws, at.y + 3, Len(rws))
         ELSE rws
    ELSE [rws EXCEPT ![at.y + 1] = Row_delete(@, at.x)]

\* Document.dirty after insert or delete: set when a mutation occurred.
Document_dirty(was_dirty, before, after) == was_dirty \/ after # before

\* The query occurs in row r starting at raw index i.
MatchAt(r, i, query) ==
    /\ i + Len(query) <= Len(r)
    /\ SubSeq(r, i + 1, i + Len(query)) = query

\* The start positions of the occurrences find may return from `at`: Forward,
\* those at or after `at`; Backward, those that end at or before `at` in its
\* row, and all of the rows above.
find_candidates(rws, query, at, dir) ==
    { p \in UNION { { Position(x, y) : x \in 0..Len(rws[y + 1]) } :
                                       y \in 0..Len(rws) - 1 } :
        /\ MatchAt(rws[p.y + 1], p.x, query)
        /\ IF dir = "Forward"
           THEN p.y > at.y \/ (p.y = at.y /\ p.x >= at.x)
           ELSE p.y < at.y \/ (p.y = at.y /\ p.x + Len(query) <= at.x) }

\* Document.find: None ({}) for the empty query; else the first occurrence
\* in the direction, searched row by row from `at` without wrapping.
Document_find(rws, query, at, dir) ==
    LET cands == find_candidates(rws, query, at, dir)
        before(p, q) == p.y < q.y \/ (p.y = q.y /\ p.x <= q.x)
    IN  IF query = <<>> \/ at.y >= Len(rws) \/ cands = {} THEN {}
        ELSE IF dir = "Forward"
        THEN { p \in cands : \A q \in cands : before(p, q) }
        ELSE { p \in cands : \A q \in cands : before(q, p) }

\* ------------------------------------------------- Editor: move_cursor
\* `if let Some(row) = self.document.row(y) { row.len() } else { 0 }`
row_len(rws, y) == IF y < Len(rws) THEN Len(rws[y + 1]) ELSE 0

move_up(y) == saturating_sub(y, 1)

move_down(y, height) ==
    IF saturating_add(y, 1) < height THEN saturating_add(y, 1) ELSE y

\* Left at column 0 lands on column 0 of the row above, not on its end.
move_left_to_start(x, y, rws) ==
    IF x > 0 THEN Position(x - 1, y)
    ELSE IF y > 0 THEN Position(0, y - 1)
    ELSE Position(x, y)

move_left(x, y, rws) ==
    IF x > 0 THEN Position(x - 1, y)
    ELSE IF y > 0 THEN Position(row_len(rws, y - 1), y - 1)
    ELSE Position(x, y)

move_right(x, y, rws) ==
    IF x < row_len(rws, y) THEN Position(x + 1, y)
    ELSE IF saturating_add(y, 1) < Len(rws) THEN Position(0, y + 1)
    ELSE Position(x, y)

page_up(y, terminal_height) ==
    IF y > terminal_height THEN saturating_sub(y, terminal_height) ELSE 0

\* PageDown compares with <= and so may step one row past the last.
page_down_past_end(y, terminal_height, height) ==
    IF saturating_add(y, terminal_height) <= height
    THEN saturating_add(y, terminal_height)
    ELSE saturating_sub(height, 1)

page_down(y, terminal_height, height) ==
    IF saturating_add(y, terminal_height) < height
    THEN saturating_add(y, terminal_height)
    ELSE saturating_sub(height, 1)

\* The closing clamp of move_cursor: x is cut to the length of the row at y.
clamp_x(p, rws) ==
    IF p.x > row_len(rws, p.y) THEN Position(row_len(rws, p.y), p.y) ELSE p

move_cursor(key_code, cur, rws, terminal_height) ==
    LET x == cur.x
        y == cur.y
        moved ==
            CASE key_code = "Up" -> Position(x, move_up(y))
              [] key_code = "Down" -> Position(x, move_down(y, Len(rws)))
              [] key_code = "Left" -> move_left(x, y, rws)
              [] key_code = "Right" -> move_right(x, y, rws)
              [] key_code = "PageUp" -> Position(x, page_up(y, terminal_height))
              [] key_code = "PageDown" ->
                    Position(x, page_down(y, terminal_height, Len(rws)))
              [] key_code = "Home" -> Position(0, y)
              [] key_code = "End" -> Position(row_len(rws, y), y)
              [] OTHER -> cur
    IN  clamp_x(moved, rws)

\* ------------------------------------------------------ Editor: scroll
\* One axis of scroll: c is the cursor coordinate, off the offset, extent the
\* terminal's width or height.
\* The `+ 1` is left out: the cursor stays one past the window.
scroll_axis_short(c, off, extent) ==
    IF c < off THEN c
    ELSE IF c >= saturating_add(off, extent) THEN saturating_sub(c, extent)
    ELSE off

\* A cursor past the window is put on the window's first line or column.
scroll_axis_to_top(c, off, extent) ==
    IF c < off THEN c
    ELSE IF c >= saturating_add(off, extent) THEN c
    ELSE off

scroll_axis(c, off, extent) ==
    IF c < off THEN c
    ELSE IF c >= saturating_add(off, extent)
    THEN saturating_add(saturating_sub(c, extent), 1)
    ELSE off

scroll(cur, off, sz) ==
    Position(scroll_axis(cur.x, off.x, sz.width),
             scroll_axis(cur.y, off.y, sz.height))

\* --------------------------------------------- Editor: process_keypress
\* The guard of the Quit arm: warn and count down instead of quitting.
\* The last warning is skipped: the counter is compared with 1.
quit_warns_one_less(qt, is_dirty) == qt > 1 /\ is_dirty

\* The dirty flag is not looked at.
quit_warns_always(qt, is_dirty) == qt > 0

quit_warns(qt, is_dirty) == qt > 0 /\ is_dirty

\* The number the warning shows: quit_times as it is before it is taken
\* down by one.
\* The number shown is the counter after it was taken down.
warning_number_after(qt) == qt - 1

warning_number(qt) == qt

\* Where the Enter arm puts the cursor: the start of the next row.
\* The column is kept.
newline_cursor_same_column(cur) == Position(cur.x, cur.y + 1)

newline_cursor(cur) == Position(0, cur.y + 1)

\* The guard of the Backspace arm: anywhere but at the start of the document.
\* Nothing is done at the start of any row.
backspace_acts_in_row(cur) == cur.x > 0

backspace_acts(cur) == cur.x > 0 \/ cur.y > 0

\* Where refresh_screen puts the terminal cursor: the cursor less the offset.
screen_cursor(cur, off) ==
    Position(saturating_sub(cur.x, off.x), saturating_sub(cur.y, off.y))

\* The end of process_keypress: a used counter is put back to QUIT_TIMES.
\* A counter used once is not put back.
quit_reset_late(qt) == IF qt < QUIT_TIMES - 1 THEN QUIT_TIMES ELSE qt

quit_reset(qt) == IF qt < QUIT_TIMES THEN QUIT_TIMES ELSE qt

\* ... and the status message is cleared with it.
message_reset(qt, msg) == IF qt < QUIT_TIMES THEN EmptyMsg ELSE msg

\* The direction the callback's match on the key leaves in `direction`:
\* every arm assigns it.
\* A key that is not a navigation key leaves the direction as it was.
callback_direction_sticky(code, dir0) ==
    IF code \in {"Left", "Up"} THEN "Backward"
    ELSE IF code \in {"Right", "Down"} THEN "Forward"
    ELSE dir0

callback_direction(code, dir0) ==
    IF code \in {"Left", "Up"} THEN "Backward" ELSE "Forward"

\* The callback search hands to prompt, run after a key that is not Enter,
\* Escape or Control-modified: the new direction, cursor and offset.
search_callback(code, dir0, query, cur, off, old, rws, sz) ==
    LET moved == code \in {"Right", "Down"}
        dir == callback_direction(code, dir0)
        from == IF moved THEN move_cursor("Right", cur, rws, sz.height) ELSE cur
        found == Document_find(rws, query, from, dir)
    IN  IF found # {}
        THEN LET position == CHOOSE p \in found : TRUE
             IN  [direction |-> dir, cursor |-> position,
                  offset |-> scroll(position, off, sz), found |-> TRUE]
        ELSE IF moved
        THEN [direction |-> dir,
              cursor |-> move_cursor("Left", from, rws, sz.height),
              offset |-> off, found |-> FALSE]
        ELSE [direction |-> dir, cursor |-> old, offset |-> scroll(old, off, sz),
              found |-> FALSE]

\* The end of search: with no query (None) the cursor goes back to where the
\* search began.
\* The cursor is left where the search took it.
search_end_stay(query, old, cur) == cur

search_end(query, old, cur) == IF query = <<>> THEN old ELSE cur

\* The number of bytes of a character in UTF-8 (char::len_utf8).
len_utf8(c) == IF c = E_ACUTE THEN 2 ELSE 1

\* String::len: the length of a string in bytes.
RECURSIVE str_len(_)
str_len(res) ==
    IF res = <<>> THEN 0 ELSE len_utf8(Head(res)) + str_len(Tail(res))

\* str::is_char_boundary: byte index n is the start of a character or the end
\* of the string.
is_char_boundary(res, n) ==
    \E k \in 0..Len(res) : str_len(SubSeq(res, 1, k)) = n

\* String::truncate(new_len), where new_len is a character boundary: the
\* characters that lie within the first new_len bytes.
truncate(res, new_len) ==
    IF new_len >= str_len(res) THEN res
    ELSE LET k == CHOOSE i \in 0..Len(res) :
                      str_len(SubSeq(res, 1, i)) = new_len
         IN  SubSeq(res, 1, k)

\* String::truncate panics when new_len is not a character boundary: the
\* Backspace arm of prompt hands it len - 1.
truncate_panics(res) ==
    ~is_char_boundary(res, saturating_sub(str_len(res), 1))

\* String::truncate(len - 1) of prompt's Backspace arm.
truncate_last(res) == truncate(res, saturating_sub(str_len(res), 1))

\* What prompt returns: None for the empty string, Some(result) otherwise.
\* The empty string is returned as Some("").
prompt_result_some(res) == {res}

prompt_result(res) == IF res = <<>> THEN {} ELSE {res}

\* ------------------------------------------------------------ documents
RowsUpTo(n) == UNION { [1..k -> Chars] : k \in 0..n }

DocsUpTo(m, n) == UNION { [1..k -> RowsUpTo(n)] : k \in 0..m }

NoPrev ==
    [cursor |-> Position(0, 0), quit_times |-> QUIT_TIMES, rows |-> <<>>,
     dirty |-> FALSE]

\* No key handled by the prompt since its last refresh.
NoPromptKey ==
    [key |-> "none", before |-> Position(0, 0), found |-> FALSE,
     typed |-> <<>>]

NoSession ==
    [start |-> Position(0, 0), moved |-> FALSE, how |-> "none",
     outcome |-> "none", last |-> NoPromptKey]

\* ------------------------------------------------------------------ Init
\* Editor::default: the document is the file named on the command line, or
\* the empty unnamed document when none is named or it cannot be opened.
Init ==
    /\ \E opened \in BOOLEAN, failed \in BOOLEAN :
          IF opened
          THEN /\ rows \in DocsUpTo(MaxRows, MaxLen)
               /\ file_name = {<<"a">>}
               /\ status_message = Msg("help", 0, <<>>)
          ELSE /\ rows = <<>>
               /\ file_name = {}
               /\ status_message =
                     IF failed THEN Msg("open_error", 0, <<>>)
                     ELSE Msg("help", 0, <<>>)
    /\ dirty = FALSE
    /\ cursor_position = Position(0, 0)
    /\ offset = Position(0, 0)
    /\ size = [width |-> Width, height |-> Height]
    /\ should_quit = FALSE
    /\ quit_times = QUIT_TIMES
    /\ pc = "render"
    /\ prompt_kind = "none"
    /\ result = <<>>
    /\ direction = "Forward"
    /\ old_position = Position(0, 0)
    /\ last_key = NoKey
    /\ quit_run = 0
    /\ prev = NoPrev
    /\ prev_offset = Position(0, 0)
    /\ session = NoSession

\* --------------------------------------------------------------- actions
\* run: refresh_screen, then leave the loop if should_quit is set. The history
\* of the key just handled is dropped when the loop goes on to the next key.
RefreshScreen ==
    /\ pc = "render"
    /\ pc' = IF should_quit THEN "done" ELSE "read"
    /\ IF should_quit
       THEN UNCHANGED <<last_key, prev, session>>
       ELSE /\ last_key' = NoKey
            /\ prev' = NoPrev
            /\ session' = NoSession
    /\ UNCHANGED <<rows, dirty, file_name, cursor_position, offset, size,
                   should_quit, quit_times, status_message, prompt_kind, result,
                   direction, old_position, quit_run, prev_offset>>

\* What every arm of process_keypress but the warning of Quit runs into:
\* scroll, then the reset of a used quit counter.
Finish(cur, off, msg) ==
    /\ cursor_position' = cur
    /\ offset' = scroll(cur, off, size)
    /\ quit_times' = quit_reset(quit_times)
    /\ status_message' = message_reset(quit_times, msg)
    /\ pc' = "render"
    /\ prompt_kind' = "none"

\* The history kept when process_keypress reads a key.
Read(key) ==
    /\ pc = "read"
    /\ last_key' = key
    /\ prev' = [cursor |-> cursor_position, quit_times |-> quit_times,
                rows |-> rows, dirty |-> dirty]
    /\ quit_run' = IF key = CtrlQ THEN quit_run + 1 ELSE 0
    /\ UNCHANGED prev_offset

\* Ctrl-Q.
Quit ==
    /\ Read(CtrlQ)
    /\ IF quit_warns(quit_times, dirty)
       THEN /\ status_message' = Msg("warning", warning_number(quit_times), <<>>)
            /\ quit_times' = quit_times - 1
            /\ pc' = "render"
            /\ UNCHANGED <<should_quit, cursor_position, offset, prompt_kind>>
       ELSE /\ should_quit' = TRUE
            /\ Finish(cursor_position, offset, status_message)
    /\ session' = NoSession
    /\ UNCHANGED <<rows, dirty, file_name, size, result, direction,
                   old_position>>

\* Document.save: the write succeeds or fails; dirty is cleared on success.
Write(name, ses) ==
    \E ok \in BOOLEAN :
        /\ file_name' = name
        /\ dirty' = IF ok THEN FALSE ELSE dirty
        /\ Finish(cursor_position, offset,
                  IF ok THEN Msg("saved", 0, <<>>)
                  ELSE Msg("write_error", 0, <<>>))
        /\ session' = [ses EXCEPT
                         !.outcome = IF ok THEN "saved" ELSE "write_error"]

\* Ctrl-S: with a file name the document is written; without one the
\* "Save as: " prompt opens.
Save ==
    /\ Read(CtrlS)
    /\ IF file_name = {}
       THEN /\ pc' = "prompt_render"
            /\ prompt_kind' = "save"
            /\ result' = <<>>
            /\ session' = [NoSession EXCEPT !.how = "open"]
            /\ UNCHANGED <<file_name, dirty, cursor_position, offset,
                           quit_times, status_message>>
       ELSE /\ Write(file_name, NoSession)
            /\ UNCHANGED result
    /\ UNCHANGED <<rows, size, should_quit, direction, old_position>>

\* Ctrl-F: search opens its prompt.
Search ==
    /\ Read(CtrlF)
    /\ old_position' = cursor_position
    /\ direction' = "Forward"
    /\ result' = <<>>
    /\ pc' = "prompt_render"
    /\ prompt_kind' = "search"
    /\ session' = [NoSession EXCEPT !.start = cursor_position, !.how = "open"]
    /\ UNCHANGED <<rows, dirty, file_name, cursor_position, offset, size,
                   should_quit, quit_times, status_message>>

\* An arm of process_keypress that edits the document or moves the cursor.
Edit(key, rws, cur) ==
    /\ Read(key)
    /\ rows' = rws
    /\ dirty' = Document_dirty(dirty, rows, rws)
    /\ Finish(cur, offset, status_message)
    /\ session' = NoSession
    /\ UNCHANGED <<file_name, size, should_quit, result, direction,
                   old_position>>

\* Enter.
InsertNewline ==
    /\ Len(rows) < MaxRows
    /\ LET rws == Document_insert(rows, cursor_position, "\n")
       IN  Edit(Key(FALSE, "Enter", ""), rws, newline_cursor(cursor_position))

\* Char(c), with or without a modifier other than the three commands.
InsertChar ==
    \E c \in Chars :
        /\ row_len(rows, Min(cursor_position.y, Max(Len(rows), 1) - 1)) < MaxLen
        /\ LET rws == Document_insert(rows, cursor_position, c)
           IN  Edit(Key(FALSE, "Char", c), rws,
                    move_cursor("Right", cursor_position, rws, size.height))

\* Delete.
Delete ==
    LET rws == Document_delete(rows, cursor_position)
    IN  /\ \A i \in 1..Len(rws) : Len(rws[i]) <= MaxLen
        /\ Edit(Key(FALSE, "Delete", ""), rws, cursor_position)

\* Backspace.
Backspace ==
    IF backspace_acts(cursor_position)
    THEN LET cur == move_cursor("Left", cursor_position, rows, size.height)
             rws == Document_delete(rows, cur)
         IN  /\ \A i \in 1..Len(rws) : Len(rws[i]) <= MaxLen
             /\ Edit(Key(FALSE, "Backspace", ""), rws, cur)
    ELSE Edit(Key(FALSE, "Backspace", ""), rows, cursor_position)

\* Up, Down, Right, Left, PageUp, PageDown, Home, End.
Move ==
    \E code \in MoveCodes :
        Edit(Key(FALSE, code, ""), rows,
             move_cursor(code, cursor_position, rows, size.height))

\* Any other key.
OtherKey ==
    \E code \in OtherCodes :
        Edit(Key(FALSE, code, ""), rows, cursor_position)

\* ---------------------------------------------------------------- prompt
\* The top of prompt's loop: the status message shows the prompt and what
\* was typed, and the screen is refreshed. The history of the key the prompt
\* handled last is dropped.
PromptRefresh ==
    /\ pc = "prompt_render"
    /\ status_message' = Msg(prompt_kind, 0, result)
    /\ pc' = "prompt_read"
    /\ session' = [session EXCEPT !.last = NoPromptKey]
    /\ UNCHANGED <<rows, dirty, file_name, cursor_position, offset, size,
                   should_quit, quit_times, prompt_kind, result, direction,
                   old_position, last_key, quit_run, prev, prev_offset>>

\* A Control-modified key: `continue`, the callback is not run.
PromptControl ==
    /\ pc = "prompt_read"
    /\ pc' = "prompt_render"
    /\ UNCHANGED <<rows, dirty, file_name, cursor_position, offset, size,
                   should_quit, quit_times, status_message, prompt_kind, result,
                   direction, old_position, last_key, quit_run, prev,
                   prev_offset, session>>

\* History: what was typed before a Backspace.
Typed(code) == IF code = "Backspace" THEN result ELSE <<>>

\* A key the loop goes on after: the callback runs with the new result.
PromptStep(code, res) ==
    /\ pc = "prompt_read"
    /\ pc' = "prompt_render"
    /\ result' = res
    /\ IF prompt_kind = "search"
       THEN LET cb == search_callback(code, direction, res, cursor_position,
                                      offset, old_position, rows, size)
            IN  /\ cursor_position' = cb.cursor
                /\ offset' = cb.offset
                /\ direction' = cb.direction
                /\ session' = [session EXCEPT
                                 !.moved = @ \/ cb.cursor # session.start,
                                 !.last = [key |-> code,
                                           before |-> cursor_position,
                                           found |-> cb.found,
                                           typed |-> Typed(code)]]
       ELSE /\ session' = [session EXCEPT
                             !.last = [NoPromptKey EXCEPT !.key = code,
                                                          !.typed = Typed(code)]]
            /\ UNCHANGED <<cursor_position, offset, direction>>
    /\ UNCHANGED <<rows, dirty, file_name, size, should_quit, quit_times,
                   status_message, prompt_kind, old_position, last_key,
                   quit_run, prev, prev_offset>>

\* Char(c) with c one of `chars`.
PromptCharFrom(chars) ==
    \E c \in chars :
        /\ Len(result) < MaxQuery
        /\ PromptStep("Char", Append(result, c))

PromptChar == PromptCharFrom(PromptChars)

\* Backspace: truncate panics on a length inside a character, and the
\* program ends there.
PromptBackspace ==
    IF truncate_panics(result)
    THEN /\ pc = "prompt_read"
         /\ pc' = "panic"
         /\ UNCHANGED <<rows, dirty, file_name, cursor_position, offset, size,
                        should_quit, quit_times, status_message, prompt_kind,
                        result, direction, old_position, last_key, quit_run,
                        prev, prev_offset, session>>
    ELSE PromptStep("Backspace", truncate_last(result))

\* A key of each arm of the callback's match that is neither a character
\* nor Backspace.
PromptCodes == {"Left", "Up", "Right", "Down", "Delete"}

PromptOther ==
    \E code \in PromptCodes : PromptStep(code, result)

\* The loop is left with `res` typed: prompt clears the status message and
\* returns None for the empty string; save or search goes on from there, and
\* then the end of process_keypress.
PromptEnd(res, how) ==
    /\ pc = "prompt_read"
    /\ result' = <<>>
    /\ direction' = "Forward"
    /\ old_position' = Position(0, 0)
    /\ IF prompt_kind = "save"
       THEN LET new_name == prompt_result(res)
                ses == [session EXCEPT !.how = how]
            IN  IF new_name = {}
                THEN /\ Finish(cursor_position, offset,
                               Msg("save_aborted", 0, <<>>))
                     /\ session' = [ses EXCEPT !.outcome = "aborted"]
                     /\ UNCHANGED <<file_name, dirty>>
                ELSE Write(new_name, ses)
       ELSE LET cur == search_end(res, old_position, cursor_position)
                off == IF res = <<>> THEN scroll(cur, offset, size) ELSE offset
            IN  /\ Finish(cur, off, EmptyMsg)
                /\ session' = [session EXCEPT !.how = how]
                /\ UNCHANGED <<file_name, dirty>>
    /\ UNCHANGED <<rows, size, should_quit, last_key, quit_run, prev,
                   prev_offset>>

PromptEnter == PromptEnd(result, IF result = <<>> THEN "empty" ELSE "enter")

PromptEsc == PromptEnd(<<>>, "esc")

\* ------------------------------------------------------------------ Next
Next ==
    \/ RefreshScreen
    \/ Quit
    \/ Save
    \/ Search
    \/ InsertNewline
    \/ InsertChar
    \/ Delete
    \/ Backspace
    \/ Move
    \/ OtherKey
    \/ PromptRefresh
    \/ PromptControl
    \/ PromptChar
    \/ PromptBackspace
    \/ PromptOther
    \/ PromptEnter
    \/ PromptEsc

Spec == Init /\ [][Next]_vars

TypeOK ==
    /\ rows \in DocsUpTo(MaxRows, MaxLen)
    /\ dirty \in BOOLEAN
    /\ quit_times \in 0..QUIT_TIMES
    /\ pc \in {"render", "read", "done", "prompt_render", "prompt_read",
               "panic"}
    /\ prompt_kind \in {"none", "save", "search"}

\* ------------------------------------------------- tabs and long characters
\* The editor on files that hold tabs, with a keyboard that types a character
\* of two bytes into the prompt.
TextChars == {"a", TAB}

TextPromptChars == {"a", E_ACUTE}

TextRowsUpTo(n) == UNION { [1..k -> TextChars] : k \in 0..n }

TextDocsUpTo(m, n) == UNION { [1..k -> TextRowsUpTo(n)] : k \in 0..m }

InitText ==
    /\ \E opened \in BOOLEAN :
          IF opened
          THEN /\ rows \in TextDocsUpTo(MaxRows, MaxLen)
               /\ file_name = {<<"a">>}
          ELSE /\ rows = <<>>
               /\ file_name = {}
    /\ status_message = Msg("help", 0, <<>>)
    /\ dirty = FALSE
    /\ cursor_position = Position(0, 0)
    /\ offset = Position(0, 0)
    /\ size = [width |-> Width, height |-> Height]
    /\ should_quit = FALSE
    /\ quit_times = QUIT_TIMES
    /\ pc = "render"
    /\ prompt_kind = "none"
    /\ result = <<>>
    /\ direction = "Forward"
    /\ old_position = Position(0, 0)
    /\ last_key = NoKey
    /\ quit_run = 0
    /\ prev = NoPrev
    /\ prev_offset = Position(0, 0)
    /\ session = NoSession

PromptCharText == PromptCharFrom(TextPromptChars)

NextText ==
    \/ RefreshScreen
    \/ Quit
    \/ Save
    \/ Search
    \/ InsertNewline
    \/ InsertChar
    \/ Delete
    \/ Backspace
    \/ Move
    \/ OtherKey
    \/ PromptRefresh
    \/ PromptControl
    \/ PromptCharText
    \/ PromptBackspace
    \/ PromptOther
    \/ PromptEnter
    \/ PromptEsc

SpecText == InitText /\ [][NextText]_vars

\* ----------------------------------------------------------- scroll alone
\* scroll as a function of the cursor, the offset and the terminal size: it
\* is applied to every cursor and every offset up to MaxCoord.
InitScroll ==
    /\ rows = <<>>
    /\ file_name = {}
    /\ status_message = Msg("help", 0, <<>>)
    /\ dirty = FALSE
    /\ cursor_position \in [x : 0..MaxCoord, y : 0..MaxCoord]
    /\ offset \in [x : 0..MaxCoord, y : 0..MaxCoord]
    /\ size \in [width : 1..MaxExtent, height : 1..MaxExtent]
    /\ should_quit = FALSE
    /\ quit_times = QUIT_TIMES
    /\ pc = "scroll"
    /\ prompt_kind = "none"
    /\ result = <<>>
    /\ direction = "Forward"
    /\ old_position = Position(0, 0)
    /\ last_key = NoKey
    /\ quit_run = 0
    /\ prev = NoPrev
    /\ prev_offset = Position(0, 0)
    /\ session = NoSession

Scroll ==
    /\ pc = "scroll"
    /\ prev_offset' = offset
    /\ offset' = scroll(cursor_position, offset, size)
    /\ pc' = "scrolled"
    /\ UNCHANGED <<rows, dirty, file_name, cursor_position, size, should_quit,
                   quit_times, status_message, prompt_kind, result, direction,
                   old_position, last_key, quit_run, prev, session>>

\* The cursor goes anywhere before the next scroll.
SetCursor ==
    /\ pc = "scrolled"
    /\ cursor_position' \in [x : 0..MaxCoord, y : 0..MaxCoord]
    /\ pc' = "scroll"
    /\ UNCHANGED <<rows, dirty, file_name, offset, size, should_quit,
                   quit_times, status_message, prompt_kind, result, direction,
                   old_position, last_key, quit_run, prev, prev_offset, session>>

NextScroll ==
    \/ Scroll
    \/ SetCursor

SpecScroll == InitScroll /\ [][NextScroll]_vars

\* ================================================================ claims
\* The length of the row at y, 0 when there is no such row.
LenAt(y) == IF y + 1 <= Len(rows) THEN Len(rows[y + 1]) ELSE 0

\* The index of the last row; 0 for the empty document.
LastRow == IF Len(rows) > 0 THEN Len(rows) - 1 ELSE 0

\* process_keypress has handled the key `last_key` down to its end.
Handled == pc = "render" /\ last_key # NoKey

HandledCode(code) == Handled /\ ~last_key.ctrl /\ last_key.code = code

\* C1, as stated: on a dirty document, counting the Quit commands in a row
\* from a fresh counter, the first 2 leave should_quit false and take one off
\* the counter each, and the 3rd sets should_quit.
C1_ThirdQuitQuits ==
    dirty =>
        /\ quit_run \in 1..(QUIT_TIMES - 1) =>
              ~should_quit /\ quit_times = QUIT_TIMES - quit_run
        /\ quit_run = QUIT_TIMES => should_quit

\* C1, amended: on a dirty document, counting the Quit commands in a row from
\* a fresh counter, the first 3 (QUIT_TIMES) leave should_quit false and take
\* one off the counter each, and the 4th sets should_quit.
C1_FourthQuitQuits ==
    dirty =>
        /\ quit_run \in 1..QUIT_TIMES =>
              ~should_quit /\ quit_times = QUIT_TIMES - quit_run
        /\ quit_run = QUIT_TIMES + 1 => should_quit

\* C1, witness: a dirty document was left by the 4th Quit in a row.
C1_Witness == dirty /\ quit_run = QUIT_TIMES + 1 /\ should_quit

\* C2: when process_keypress has handled a key that is not Ctrl-Q (an edit, a
\* move, a save, a search or a key it does not know), quit_times is QUIT_TIMES.
C2_OtherKeyResets ==
    (Handled /\ last_key # CtrlQ) => quit_times = QUIT_TIMES

\* C2, witness: a key other than Ctrl-Q was handled while the counter was used.
C2_Witness ==
    /\ Handled
    /\ last_key # CtrlQ
    /\ prev.quit_times < QUIT_TIMES
    /\ quit_times = QUIT_TIMES

\* C3: on a document that is not dirty one Quit sets should_quit; once
\* should_quit is set the loop renders once more and ends without reading a
\* key; and should_quit is set by no key but Ctrl-Q.
C3_CleanQuit ==
    /\ (Handled /\ last_key = CtrlQ /\ ~dirty) => should_quit
    /\ should_quit => (pc \in {"render", "done"} /\ last_key = CtrlQ)
    /\ pc = "done" => (should_quit /\ ~ENABLED Next)

\* C3, witness: a clean document was left by a single Quit, and the loop ended.
C3_Witness == pc = "done" /\ ~dirty /\ quit_run = 1 /\ should_quit

\* C4, as stated: the cursor is a valid document position in every state:
\* cursor.y <= max(document.len() - 1, 0), and cursor.x <= the length of the
\* row at cursor.y (0 when there is no such row).
C4_CursorValid ==
    /\ cursor_position.y <= LastRow
    /\ cursor_position.x <= LenAt(cursor_position.y)

\* C5, as stated: a vertical motion (Up, Down, PageUp, PageDown) on a
\* document that is not empty leaves cursor.y in [0, document.len() - 1], and
\* x' = min(x, length of the row at y').
C5_VerticalMotion ==
    (/\ Handled
     /\ ~last_key.ctrl
     /\ last_key.code \in {"Up", "Down", "PageUp", "PageDown"}
     /\ Len(rows) > 0)
    => /\ cursor_position.y \in 0..(Len(rows) - 1)
       /\ cursor_position.x = Min(prev.cursor.x, LenAt(cursor_position.y))

\* C6: Left at column 0 of a row y > 0 goes to the end of row y - 1; Right at
\* the end of a row that is not the last goes to column 0 of row y + 1;
\* elsewhere Left and Right change x by one and keep y; Left at (0, 0) and
\* Right at the end of the last row change nothing. (A row that does not
\* exist counts as a row of length 0.)
C6_HorizontalWrap ==
    LET x == prev.cursor.x
        y == prev.cursor.y
    IN  /\ HandledCode("Left") =>
              cursor_position =
                 IF x > 0 THEN Position(x - 1, y)
                 ELSE IF y > 0 THEN Position(LenAt(y - 1), y - 1)
                 ELSE Position(0, 0)
        /\ HandledCode("Right") =>
              cursor_position =
                 IF x < LenAt(y) THEN Position(x + 1, y)
                 ELSE IF y + 1 < Len(rows) THEN Position(0, y + 1)
                 ELSE Position(x, y)

\* C6, witness: Left at column 0 took the cursor to the end of a row above
\* that is not empty.
C6_Witness ==
    /\ HandledCode("Left")
    /\ prev.cursor.x = 0
    /\ prev.cursor.y > 0
    /\ cursor_position.y = prev.cursor.y - 1
    /\ cursor_position.x = LenAt(cursor_position.y)
    /\ cursor_position.x > 0

C8_CursorInView ==
    pc = "scrolled" =>
        /\ offset.y <= cursor_position.y
        /\ cursor_position.y < offset.y + size.height
        /\ offset.x <= cursor_position.x
        /\ cursor_position.x < offset.x + size.width

\* C8, witness: scroll has run with the cursor past the window on one axis
\* and before it on the other.
C8_Witness ==
    /\ pc = "scrolled"
    /\ cursor_position.y >= prev_offset.y + size.height
    /\ cursor_position.x < prev_offset.x

\* The offsets of one axis that show the coordinate c in a window of `extent`.
Showing(c, extent) == { o \in 0..c : o <= c /\ c < o + extent }

Dist(a, b) == IF a > b THEN a - b ELSE b - a

\* What C9 says of one axis: the offset stays when c is in the window; else
\* it is c (before the window) or c - extent + 1 (past it), which is the
\* offset closest to the old one that shows c.
AxisMinimal(c, old, new, extent) ==
    /\ (old <= c /\ c < old + extent) => new = old
    /\ c < old => new = c
    /\ c >= old + extent => new = c - extent + 1
    /\ new \in Showing(c, extent)
    /\ \A o \in Showing(c, extent) : Dist(new, old) <= Dist(o, old)

\* C9: scroll leaves the offset of an axis alone when the cursor is inside
\* the window on that axis, and else moves it by the least amount that shows
\* the cursor; each axis by itself.
C9_MinimalScroll ==
    pc = "scrolled" =>
        /\ AxisMinimal(cursor_position.x, prev_offset.x, offset.x, size.width)
        /\ AxisMinimal(cursor_position.y, prev_offset.y, offset.y, size.height)

\* C9, witness: scroll has moved the offset of the y axis, by more than one
\* line and to a window that does not start at the cursor, and left the x
\* axis alone.
C9_Witness ==
    /\ pc = "scrolled"
    /\ offset.x = prev_offset.x
    /\ offset.y > prev_offset.y + 1
    /\ offset.y < cursor_position.y

\* C10: when a search ends by Escape, or by Enter with nothing typed, the
\* cursor is where it was when Find was issued.
C10_AbortRestores ==
    (Handled /\ last_key = CtrlF /\ session.how \in {"esc", "empty"})
    => cursor_position = session.start

\* C10, witness: a search that had moved the cursor was ended by Escape.
C10_Witness ==
    /\ Handled
    /\ last_key = CtrlF
    /\ session.how = "esc"
    /\ session.moved
    /\ cursor_position = session.start

\* The prompt of a search session is about to refresh the screen, having
\* handled a key and run the callback.
SearchKeyHandled ==
    /\ pc = "prompt_render"
    /\ prompt_kind = "search"
    /\ session.last.key # "none"

\* The position find is handed: the cursor as it is when the callback calls
\* find, one step to the right of where the key found it for Right and Down.
FindFrom ==
    IF session.last.key \in {"Right", "Down"}
    THEN move_cursor("Right", session.last.before, rows, size.height)
    ELSE session.last.before

\* C11: in a search session find is run again after every key that is not
\* Enter, Escape or Control-modified, from the cursor's position and with
\* direction Backward exactly when the key is Left or Up, Forward for
\* every other key (a typed character and Backspace too); when the session
\* opens, before any key, the direction is Forward.
C11_SearchDirection ==
    /\ (pc = "prompt_render" /\ prompt_kind = "search"
            /\ status_message.kind # "search")
       => direction = "Forward"
    /\ SearchKeyHandled =>
          LET dir == IF session.last.key \in {"Left", "Up"}
                     THEN "Backward" ELSE "Forward"
              found == Document_find(rows, result, FindFrom, dir)
          IN  /\ direction = dir
              /\ session.last.found = (found # {})
              /\ found # {} => cursor_position \in found

\* A Left key in a search session found a match behind the cursor.
C11_Witness ==
    /\ SearchKeyHandled
    /\ session.last.key = "Left"
    /\ direction = "Backward"
    /\ session.last.found
    /\ cursor_position # session.last.before

\* C12, as stated: once a Save command has been handled to its end, the
\* status message reports its outcome: the write-error message when the
\* write failed (and a dirty document is still dirty), the aborted message
\* when the file-name prompt was aborted or left empty, the success message
\* otherwise; in every state Save can be issued in, also after a Quit warning.
C12_SaveReported ==
    (Handled /\ last_key = CtrlS) =>
        /\ session.outcome = "write_error" =>
              /\ status_message.kind = "write_error"
              /\ prev.dirty => dirty
        /\ session.outcome = "aborted" => status_message.kind = "save_aborted"
        /\ session.outcome = "saved" => status_message.kind = "saved"

\* The "Save as: " prompt of the Save command just handled was left by
\* Escape or by Enter on an empty string.
SaveAsAborted ==
    /\ Handled
    /\ last_key = CtrlS
    /\ session.how \in {"esc", "empty"}

\* C13: Save on a document without a file name prompts for one; when the
\* prompt is aborted by Escape or answered with the empty string,
\* Document.save is not called, file_name stays None, the dirty flag and the
\* rows are as they were and should_quit is unchanged: the editor keeps
\* running.
C13_AbortedSaveWritesNothing ==
    /\ (pc \in {"prompt_render", "prompt_read"} /\ prompt_kind = "save")
       => /\ last_key = CtrlS
          /\ file_name = {}
          /\ rows = prev.rows
          /\ dirty = prev.dirty
          /\ ~should_quit
    /\ SaveAsAborted =>
          /\ session.outcome = "aborted"
          /\ file_name = {}
          /\ rows = prev.rows
          /\ dirty = prev.dirty
          /\ ~should_quit

\* A dirty unnamed document, the prompt left by Escape after a character
\* was typed: nothing was written.
C13_Witness ==
    /\ SaveAsAborted
    /\ session.how = "esc"
    /\ session.outcome = "aborted"
    /\ dirty
    /\ file_name = {}

\* The cursor the last key was read at is a position of the document as it
\* was then: on an existing row, at one of its columns or at its end.
PrevCursorOnRow ==
    /\ prev.cursor.y < Len(prev.rows)
    /\ prev.cursor.x <= Len(prev.rows[prev.cursor.y + 1])

PromptBackspaceHandled ==
    /\ pc = "prompt_render"
    /\ session.last.key = "Backspace"

\* C15, as stated: the prompt (Save-as and Search) faults on no sequence
\* of keys, and Backspace takes exactly the last typed character off the
\* pending input (nothing off the empty input), whatever was typed before,
\* characters of more than one byte too.
C15_PromptNeverFaults ==
    /\ pc # "panic"
    /\ PromptBackspaceHandled =>
          result = SubSeq(session.last.typed, 1,
                          saturating_sub(Len(session.last.typed), 1))

\* The screen is about to be drawn by refresh_screen, in the main loop or
\* inside a prompt, with the editor still running.
Rendering == pc \in {"render", "prompt_render"} /\ ~should_quit

\* The row the cursor is on, empty when there is none.
CursorRow ==
    IF cursor_position.y < Len(rows) THEN rows[cursor_position.y + 1] ELSE <<>>

\* C16, as stated: the column refresh_screen places the terminal cursor at
\* is the render position of the cursor, raw_to_render_x(cursor.x), less
\* offset.x, on every row, rows with tabs before the cursor too.
C16_RenderColumn ==
    Rendering =>
        screen_cursor(cursor_position, offset).x =
            raw_to_render_x(CursorRow, cursor_position.x) - offset.x

\* C17, as stated: with a viewport of at least one column and one row, at
\* every render of the screen, in the main loop and inside a Save-as or
\* Search prompt, the cursor is inside the viewport on both axes, so the
\* saturating subtraction of refresh_screen clips nothing.
C17_CursorInViewAtRender ==
    (Rendering /\ size.width >= 1 /\ size.height >= 1) =>
        /\ offset.y <= cursor_position.y
        /\ cursor_position.y < offset.y + size.height
        /\ offset.x <= cursor_position.x
        /\ cursor_position.x < offset.x + size.width
        /\ screen_cursor(cursor_position, offset) =
              Position(cursor_position.x - offset.x,
                       cursor_position.y - offset.y)

\* A search session has handled Right or Down and find returned no match.
ForwardKeyNoMatch ==
    /\ SearchKeyHandled
    /\ session.last.key \in {"Right", "Down"}
    /\ ~session.last.found

\* C18, as stated: in a search session a Right or Down key for which find
\* returns no match leaves the cursor exactly where it was before the key,
\* at every cursor position, the end of the last row too.
C18_NoMatchKeepsCursor ==
    ForwardKeyNoMatch => cursor_position = session.last.before

\* A Quit command on a dirty document has been handled and did not quit.
QuitWarned ==
    /\ Handled
    /\ last_key = CtrlQ
    /\ dirty
    /\ ~should_quit

\* C19: every Quit command on a dirty document that does not quit shows
\* the warning, and the number N of the warning is the number of further
\* Quit commands in a row it takes to set should_quit: a run of Quit commands
\* from a fresh counter quits with the command number QUIT_TIMES + 1, and
\* after command number k the warning shows QUIT_TIMES + 1 - k; quit_times is
\* always within 0..QUIT_TIMES.
C19_WarningCountsDown ==
    /\ quit_times \in 0..QUIT_TIMES
    /\ (Handled /\ last_key = CtrlQ /\ dirty) =>
          /\ quit_run \in 1..(QUIT_TIMES + 1)
          /\ should_quit <=> quit_run = QUIT_TIMES + 1
    /\ QuitWarned =>
          /\ status_message.kind = "warning"
          /\ status_message.n = (QUIT_TIMES + 1) - quit_run
          /\ status_message.n >= 1
          /\ quit_times = status_message.n - 1

\* The last warning: one more Quit command quits, and the counter is at 0.
C19_Witness ==
    /\ QuitWarned
    /\ status_message = Msg("warning", 1, <<>>)
    /\ quit_run = QUIT_TIMES
    /\ quit_times = 0

\* C20: Backspace with the cursor at (0,0) changes nothing: rows, dirty flag
\* and cursor are as before. At any other position of the document it does
\* what Move Left followed by DeleteForward at the new cursor does: at column
\* 0 of a row y > 0 row y is merged into row y - 1 and the cursor is at the
\* former end of row y - 1; inside a row the character before the cursor is
\* removed and the cursor is one column to the left.
C20_BackspaceIsLeftDelete ==
    HandledCode("Backspace") =>
        LET x == prev.cursor.x
            y == prev.cursor.y
            old == prev.rows
            left == move_cursor("Left", prev.cursor, old, size.height)
        IN  /\ (x = 0 /\ y = 0) =>
                  /\ rows = old
                  /\ dirty = prev.dirty
                  /\ cursor_position = prev.cursor
            /\ (PrevCursorOnRow /\ (x > 0 \/ y > 0)) =>
                  /\ cursor_position = left
                  /\ rows = Document_delete(old, left)
            /\ (PrevCursorOnRow /\ x = 0 /\ y > 0) =>
                  /\ Len(rows) = Len(old) - 1
                  /\ rows[y] = old[y] \o old[y + 1]
                  /\ \A i \in 1..(y - 1) : rows[i] = old[i]
                  /\ \A i \in (y + 2)..Len(old) : rows[i - 1] = old[i]
                  /\ cursor_position = Position(Len(old[y]), y - 1)
            /\ (PrevCursorOnRow /\ x > 0) =>
                  /\ Len(rows) = Len(old)
                  /\ rows[y + 1] = SubSeq(old[y + 1], 1, x - 1)
                                      \o SubSeq(old[y + 1], x + 1, Len(old[y + 1]))
                  /\ \A i \in 1..Len(old) : i # y + 1 => rows[i] = old[i]
                  /\ cursor_position = Position(x - 1, y)

\* Backspace at the start of the second row, below a row that is not empty:
\* one row less, the cursor at the former end of the first row.
C20_Witness ==
    /\ HandledCode("Backspace")
    /\ PrevCursorOnRow
    /\ prev.cursor.x = 0
    /\ prev.cursor.y > 0
    /\ Len(rows) = Len(prev.rows) - 1
    /\ cursor_position = Position(Len(prev.rows[prev.cursor.y]), prev.cursor.y - 1)
    /\ cursor_position.x > 0

====
